---- MODULE Spec2Model ----
(***************************************************************************)
(* Model of src/index.js: the `eco` object, a facade over the browser's   *)
(* localStorage that keeps numeric counters as JSON text.                  *)
(*                                                                         *)
(* State: the shared store (key -> stored text) and a record of the last   *)
(* public call (its arguments, the store primitives it invoked, whether an *)
(* exception reached the caller, and what it returned).                    *)
(*                                                                         *)
(* JavaScript numbers are modelled as normalised rationals n/d.  Every     *)
(* number input and every divisor used below is an integer whose divisions *)
(* give dyadic rationals, which IEEE doubles represent exactly, so the     *)
(* rational arithmetic coincides with the floating point arithmetic on the *)
(* values that occur.  -0 is identified with 0 (JSON.stringify writes both *)
(* as the text 0).                                                         *)
(***************************************************************************)
EXTENDS Integers, Sequences, FiniteSets, TLC

VARIABLES store, last

vars == <<store, last>>

---------------------------------------------------------------------------
(* Bounds of the model.                                                    *)

\* stored numbers are kept within -MaxAbs .. MaxAbs
MaxAbs == 2
\* ... with denominators up to MaxDen
MaxDen == 2
\* batch arguments hold up to MaxBatch items
MaxBatch == 2

---------------------------------------------------------------------------
(* JavaScript values.                                                      *)

Num(n, d) == [t |-> "num", n |-> n, d |-> d, min |-> 0, max |-> 0]
IntV(n) == Num(n, 1)
NaN == [t |-> "nan", n |-> 0, d |-> 1, min |-> 0, max |-> 0]
\* +Infinity (s = 1) and -Infinity (s = -1)
Inf(s) == [t |-> "inf", n |-> s, d |-> 1, min |-> 0, max |-> 0]
Null == [t |-> "null", n |-> 0, d |-> 1, min |-> 0, max |-> 0]
Undef == [t |-> "undef", n |-> 0, d |-> 1, min |-> 0, max |-> 0]
Bool(b) == [t |-> "bool", n |-> IF b THEN 1 ELSE 0, d |-> 1, min |-> 0, max |-> 0]
\* the object {min: lo, max: hi}
Range(lo, hi) == [t |-> "range", n |-> 0, d |-> 1, min |-> lo, max |-> hi]

Abs(x) == IF x < 0 THEN -x ELSE x

RECURSIVE GCD(_, _)
GCD(a, b) == IF b = 0 THEN a ELSE GCD(b, a % b)

\* the rational n/d (d # 0) in lowest terms with a positive denominator
Norm(n, d) ==
    LET g == GCD(Abs(n), Abs(d))
        sg == IF d < 0 THEN -1 ELSE 1
    IN Num((sg * n) \div g, (sg * d) \div g)

IsFinite(v) == v.t = "num"

\* typeof v === "object"
IsObject(v) == v.t \in {"null", "range"}

\* the abstract operation ToNumber
ToNumber(v) ==
    CASE v.t \in {"num", "nan", "inf"} -> v
      [] v.t = "null" -> IntV(0)
      [] v.t = "bool" -> IntV(v.n)
      [] OTHER -> NaN

Sign(v) == IF v.n > 0 THEN 1 ELSE IF v.n < 0 THEN -1 ELSE 0

\* a + b on operands that are not strings
Plus(a, b) ==
    LET x == ToNumber(a)
        y == ToNumber(b)
    IN CASE x.t = "nan" \/ y.t = "nan" -> NaN
         [] x.t = "inf" /\ y.t = "inf" -> IF x.n = y.n THEN x ELSE NaN
         [] x.t = "inf" -> x
         [] y.t = "inf" -> y
         [] OTHER -> Norm(x.n * y.d + y.n * x.d, x.d * y.d)

\* a - b
Minus(a, b) ==
    LET x == ToNumber(a)
        y == ToNumber(b)
    IN CASE x.t = "nan" \/ y.t = "nan" -> NaN
         [] x.t = "inf" /\ y.t = "inf" -> IF x.n = y.n THEN NaN ELSE x
         [] x.t = "inf" -> x
         [] y.t = "inf" -> Inf(-y.n)
         [] OTHER -> Norm(x.n * y.d - y.n * x.d, x.d * y.d)

\* a * b
Times(a, b) ==
    LET x == ToNumber(a)
        y == ToNumber(b)
    IN CASE x.t = "nan" \/ y.t = "nan" -> NaN
         [] x.t = "inf" \/ y.t = "inf" ->
                IF Sign(x) * Sign(y) = 0 THEN NaN ELSE Inf(Sign(x) * Sign(y))
         [] OTHER -> Norm(x.n * y.n, x.d * y.d)

\* a / b
Divide(a, b) ==
    LET x == ToNumber(a)
        y == ToNumber(b)
    IN CASE x.t = "nan" \/ y.t = "nan" -> NaN
         [] x.t = "inf" /\ y.t = "inf" -> NaN
         [] x.t = "inf" -> Inf(x.n * (IF Sign(y) < 0 THEN -1 ELSE 1))
         [] y.t = "inf" -> IntV(0)
         [] y.n = 0 -> IF x.n = 0 THEN NaN ELSE Inf(Sign(x))
         [] OTHER -> Norm(x.n * y.d, x.d * y.n)

\* Math.max(0, v) for a number v
MathMax0(v) ==
    CASE v.t = "nan" -> NaN
      [] v.t = "inf" -> IF v.n > 0 THEN v ELSE IntV(0)
      [] OTHER -> IF v.n < 0 THEN IntV(0) ELSE v

\* v < 0 for a value a caller compares as a number
Negative(v) == ToNumber(v).t \in {"num", "inf"} /\ ToNumber(v).n < 0

---------------------------------------------------------------------------
(* Stored text and the JSON conversions.                                   *)

\* the JSON text of value v
JsonText(v) == [x |-> "json", v |-> v, s |-> ""]
\* text s that is not JSON
RawText(s) == [x |-> "raw", v |-> Undef, s |-> s]
\* no entry: getItem returns null
NoEntry == [x |-> "none", v |-> Null, s |-> ""]

\* JSON.stringify(v): a JSON text, or undefined for undefined
JSONstringify(v) ==
    CASE v.t \in {"nan", "inf"} -> [def |-> TRUE, text |-> JsonText(Null)]
      [] v.t = "undef" -> [def |-> FALSE, text |-> NoEntry]
      [] OTHER -> [def |-> TRUE, text |-> JsonText(v)]

\* the string setItem stores for the argument JSON.stringify returned
StoredText(j) == IF j.def THEN j.text ELSE RawText("undefined")

\* JSON.parse(r) of what getItem returned: null is first converted to the
\* text null; text that is not JSON throws a SyntaxError
JSONparse(r) ==
    CASE r.x = "none" -> [ok |-> TRUE, v |-> Null]
      [] r.x = "json" -> [ok |-> TRUE, v |-> r.v]
      [] OTHER -> [ok |-> FALSE, v |-> Undef]

---------------------------------------------------------------------------
(* The store and the running call.                                         *)

\* the keys callers pass: two counters, and a Symbol, which no store
\* primitive and no template literal can convert to a string
SymbolKey == "Symbol()"
LedgerKeys == {"a", "b"}
KeyArgs == LedgerKeys \cup {SymbolKey}
\* the keys of the shared store
StoreKeys == LedgerKeys

EmptyStore == [k \in StoreKeys |-> NoEntry]

\* the empty mapping {}
NoMap == [k \in {} |-> Undef]

\* A call in progress: the store, the store primitives invoked so far (tr),
\* the random numbers drawn so far (rn), whether an exception is
\* propagating (ex), the operand resolved last (val), what getItem returned
\* (txt), the value returned (ret), the mapping built by batchGet (map) and
\* the batch callbacks completed (done).
Start(st) ==
    [st |-> st, tr |-> <<>>, rn |-> 0, ex |-> FALSE, val |-> Undef,
     txt |-> NoEntry, ret |-> Undef, map |-> NoMap, done |-> 0]

\* The environment of one call: plan is the set of positions, among the
\* store primitives the call invokes, at which the primitive throws; rng is
\* the sequence of outcomes u of Math.random() = u / 2.
Env(plan, rng) == [plan |-> plan, rng |-> rng]

\* whether the store primitive invoked next on `key` returns normally
PrimOk(m, key, env) == key # SymbolKey /\ (Len(m.tr) + 1) \notin env.plan

Called(m, prim, key, ok) ==
    Append(m.tr, [prim |-> prim, key |-> key, ok |-> ok])

\* localStorage.getItem(key)
getItem(m, key, env) ==
    LET ok == PrimOk(m, key, env)
    IN [m EXCEPT !.tr = Called(m, "getItem", key, ok), !.ex = ~ok,
                 !.txt = IF ok THEN m.st[key] ELSE NoEntry]

\* localStorage.setItem(key, j), j what JSON.stringify returned
setItem(m, key, j, env) ==
    LET ok == PrimOk(m, key, env)
    IN [m EXCEPT !.tr = Called(m, "setItem", key, ok), !.ex = ~ok,
                 !.st = IF ok THEN [m.st EXCEPT ![key] = StoredText(j)] ELSE m.st]

\* removeItem that leaves a stored zero instead of removing the entry
removeItemZero(m, key, env) ==
    LET ok == PrimOk(m, key, env)
    IN [m EXCEPT !.tr = Called(m, "removeItem", key, ok), !.ex = ~ok,
                 !.st = IF ok THEN [m.st EXCEPT ![key] = JsonText(IntV(0))]
                        ELSE m.st]

\* localStorage.removeItem(key)
removeItem(m, key, env) ==
    LET ok == PrimOk(m, key, env)
    IN [m EXCEPT !.tr = Called(m, "removeItem", key, ok), !.ex = ~ok,
                 !.st = IF ok THEN [m.st EXCEPT ![key] = NoEntry] ELSE m.st]

\* clear that removes only the entries holding JSON text
clearJsonOnly(m, env) ==
    LET ok == PrimOk(m, "", env)
    IN [m EXCEPT !.tr = Called(m, "clear", "", ok), !.ex = ~ok,
                 !.st = IF ok
                        THEN [k \in StoreKeys |->
                                 IF m.st[k].x = "json" THEN NoEntry ELSE m.st[k]]
                        ELSE m.st]

\* localStorage.clear()
clear(m, env) ==
    LET ok == PrimOk(m, "", env)
    IN [m EXCEPT !.tr = Called(m, "clear", "", ok), !.ex = ~ok,
                 !.st = IF ok THEN EmptyStore ELSE m.st]

\* A catch block that logs `... key '${key}':`: the template literal
\* throws a TypeError when key is a Symbol, and that exception leaves the
\* operation.
TemplateThrows(key) == key = SymbolKey

\* randomize with Math.round in place of Math.floor
randomizeRound(min, max, u) == ((u * (max - min + 1) + 1) \div 2) + min

\* Math.floor(Math.random() * (max - min + 1)) + min, where Math.random()
\* returned u / 2
randomize(min, max, u) == ((u * (max - min + 1)) \div 2) + min

\* the outcome of the next Math.random() call
NextDraw(m, env) == IF m.rn + 1 <= Len(env.rng) THEN env.rng[m.rn + 1] ELSE 0

\* if (typeof value === "object" && value.min !== undefined &&
\*     value.max !== undefined) value = this.randomize(value.min, value.max);
\* reading .min of null throws a TypeError
Resolve(m, value, env) ==
    CASE value.t = "null" -> [m EXCEPT !.ex = TRUE]
      [] value.t = "range" ->
           [m EXCEPT !.val = IntV(randomize(value.min, value.max, NextDraw(m, env))),
                     !.rn = m.rn + 1]
      [] OTHER -> [m EXCEPT !.val = value]

---------------------------------------------------------------------------
(* The scalar operations.  Each is one try block followed by a catch block *)
(* that logs the key; the steps of the try block are chained, a step being *)
(* skipped once an exception propagates.                                   *)

\* catch (error) { console.error(`Error ... key '${key}':`, error); }
Catch(key, r) == IF r.ex THEN [r EXCEPT !.ex = TemplateThrows(key)] ELSE r

\* get whose catch block returns nothing
DecodeNoDefault(key, g) ==
    LET p == JSONparse(g.txt)
    IN IF g.ex \/ ~p.ok
       THEN [g EXCEPT !.ex = TemplateThrows(key), !.ret = Undef]
       ELSE [g EXCEPT !.ret = IF p.v = Null THEN IntV(0) ELSE p.v]

\* const data = JSON.parse(...); if (data === null) return 0; return data;
\* and, in the catch block, return 0
Decode(key, g) ==
    LET p == JSONparse(g.txt)
    IN IF g.ex \/ ~p.ok
       THEN [g EXCEPT !.ex = TemplateThrows(key), !.ret = IntV(0)]
       ELSE [g EXCEPT !.ret = IF p.v = Null THEN IntV(0) ELSE p.v]

get(m, key, env) == Decode(key, getItem(m, key, env))

\* set that clamps the value at 0 before storing it
PersistClamped(key, env, r) ==
    IF r.ex THEN r ELSE setItem(r, key, JSONstringify(MathMax0(r.val)), env)

\* localStorage.setItem(key, JSON.stringify(value))
Persist(key, env, r) ==
    IF r.ex THEN r ELSE setItem(r, key, JSONstringify(r.val), env)

set(m, key, value, env) == Catch(key, Persist(key, env, Resolve(m, value, env)))

\* this.get(key), as the first operand of the arithmetic
Read(key, env, r) == IF r.ex THEN r ELSE get(r, key, env)

\* this.set(key, this.get(key) + amount)
AddStep(key, env, g) ==
    IF g.ex THEN g ELSE set(g, key, Plus(g.ret, g.val), env)

add(m, key, amount, env) ==
    Catch(key, AddStep(key, env, Read(key, env, Resolve(m, amount, env))))

\* sub without the clamp
SubStepNoClamp(key, env, g) ==
    IF g.ex THEN g ELSE set(g, key, Minus(g.ret, g.val), env)

\* this.set(key, Math.max(0, this.get(key) - amount))
SubStep(key, env, g) ==
    IF g.ex THEN g ELSE set(g, key, MathMax0(Minus(g.ret, g.val)), env)

sub(m, key, amount, env) ==
    Catch(key, SubStep(key, env, Read(key, env, Resolve(m, amount, env))))

del(m, key, env) == Catch(key, removeItem(m, key, env))

\* the catch block logs no key
res(m, env) == [clear(m, env) EXCEPT !.ex = FALSE]

\* this.set(key, this.get(key) * amount)
MulStep(key, env, g) ==
    IF g.ex THEN g ELSE set(g, key, Times(g.ret, g.val), env)

mul(m, key, amount, env) ==
    Catch(key, MulStep(key, env, Read(key, env, Resolve(m, amount, env))))

\* this.set(key, Math.max(0, this.get(key) / amount))
DivStep(key, env, g) ==
    IF g.ex THEN g ELSE set(g, key, MathMax0(Divide(g.ret, g.val)), env)

div(m, key, amount, env) ==
    Catch(key, DivStep(key, env, Read(key, env, Resolve(m, amount, env))))

---------------------------------------------------------------------------
(* The batch operations.  A batch argument is [arr, items]: arr says       *)
(* whether it is an array at all; an item is [obj, key, value], obj FALSE  *)
(* for an item such as null that cannot be destructured, value Undef for   *)
(* an item without a value.                                                *)

Item(key, value) == [obj |-> TRUE, key |-> key, value |-> value]
NullItem == [obj |-> FALSE, key |-> "", value |-> Undef]
Array(items) == [arr |-> TRUE, items |-> items]
NotAnArray == [arr |-> FALSE, items |-> <<>>]

\* this.set / this.add / ... as called from the callback of batch operation op
Scalar(op, m, key, value, env) ==
    CASE op = "batchSet" -> set(m, key, value, env)
      [] op = "batchAdd" -> add(m, key, value, env)
      [] op = "batchSub" -> sub(m, key, value, env)
      [] op = "batchMul" -> mul(m, key, value, env)
      [] op = "batchDiv" -> div(m, key, value, env)

\* this.op(key, value) with the value the callback resolved
Apply(op, key, env, r) == IF r.ex THEN r ELSE Scalar(op, r, key, r.val, env)

\* ({ key, value }) => { if (...) value = this.randomize(...); this.op(key, value); }
\* destructuring an item that is no object throws a TypeError
Callback(op, m, item, env) ==
    IF ~item.obj THEN [m EXCEPT !.ex = TRUE]
    ELSE Apply(op, item.key, env, Resolve(m, item.value, env))

RECURSIVE forEach(_, _, _, _)

\* after one callback ended as c: an exception leaving it ends the loop
Iterate(op, c, rest, env) ==
    IF c.ex THEN c ELSE forEach(op, [c EXCEPT !.done = @ + 1], rest, env)

\* forEach visiting the items last to first
forEachReversed(op, m, items, env) ==
    IF items = <<>> THEN m
    ELSE Iterate(op, Callback(op, m, items[Len(items)], env),
                 SubSeq(items, 1, Len(items) - 1), env)

\* items.forEach(callback)
forEach(op, m, items, env) ==
    IF items = <<>> THEN m
    ELSE Iterate(op, Callback(op, m, Head(items), env), Tail(items), env)

\* try { items.forEach(...) } catch (error) { console.error("...", error) }
\* forEach of something that is no array throws a TypeError
Batch(op, m, arg, env) ==
    IF ~arg.arr THEN m
    ELSE [forEach(op, m, arg.items, env) EXCEPT !.ex = FALSE]

batchSet(m, arg, env) == Batch("batchSet", m, arg, env)

batchAdd(m, arg, env) == Batch("batchAdd", m, arg, env)

batchSub(m, arg, env) == Batch("batchSub", m, arg, env)

batchMul(m, arg, env) == Batch("batchMul", m, arg, env)

batchDiv(m, arg, env) == Batch("batchDiv", m, arg, env)

RECURSIVE forEachDel(_, _, _)

IterateDel(c, rest, env) ==
    IF c.ex THEN c ELSE forEachDel([c EXCEPT !.done = @ + 1], rest, env)

\* keys.forEach((key) => this.del(key))
forEachDel(m, keys, env) ==
    IF keys = <<>> THEN m
    ELSE IterateDel(del(m, Head(keys), env), Tail(keys), env)

batchDel(m, arg, env) ==
    IF ~arg.arr THEN m
    ELSE [forEachDel(m, arg.items, env) EXCEPT !.ex = FALSE]

\* result[key] = value
Assign(map, key, value) ==
    [k \in DOMAIN map \cup {key} |-> IF k = key THEN value ELSE map[k]]

RECURSIVE reduce(_, _, _)

\* result[key] = this.get(key); return result;
Accumulate(key, g, rest, env) ==
    IF g.ex THEN g
    ELSE reduce([g EXCEPT !.map = Assign(g.map, key, g.ret), !.done = @ + 1],
                rest, env)

\* keys.reduce((result, key) => { ... }, {})
reduce(m, keys, env) ==
    IF keys = <<>> THEN m
    ELSE Accumulate(Head(keys), get(m, Head(keys), env), Tail(keys), env)

\* catch (error) { ...; return {}; }
Recover(r) == IF r.ex THEN [r EXCEPT !.ex = FALSE, !.map = NoMap] ELSE r

\* reduce of something that is no array throws a TypeError
batchGet(m, arg, env) ==
    Recover(IF arg.arr THEN reduce(m, arg.items, env) ELSE [m EXCEPT !.ex = TRUE])

---------------------------------------------------------------------------
(* Inputs.                                                                 *)

NumArgs == {IntV(-2), IntV(0), IntV(1), IntV(2)}
RangeArgs == {Range(1, 2), Range(1, 1)}
\* what callers pass as value or amount: numbers, RandomRanges, null, undefined
Amounts == NumArgs \cup RangeArgs \cup {Null, Undef}

\* The positions among the n store primitives of a scalar call at which the
\* primitive throws; a Symbol key is rejected before the store is reached.
Plans(key, n) == IF key = SymbolKey THEN {{}} ELSE SUBSET (1 .. n)

\* Math.random() returns 0 or 1/2: u / 2 for u in RandomOutcomes
RandomOutcomes == {0, 1}

\* the outcomes of n calls of Math.random()
DrawSeqs(n) == [1 .. n -> RandomOutcomes]
Draws(value) == DrawSeqs(IF value.t = "range" THEN 1 ELSE 0)

\* text other subsystems leave in the shared store: text that is not JSON,
\* and the JSON text true
ForeignTexts == {RawText("{oops"), JsonText(Bool(TRUE))}

BatchItems ==
    {Item("a", IntV(1)), Item("a", Range(1, 2)), Item("b", Range(1, 2)),
     Item("b", Null), NullItem}

SeqsUpTo(S, n) == UNION {[1 .. k -> S] : k \in 0 .. n}

BatchArgs == {NotAnArray} \cup {Array(s) : s \in SeqsUpTo(BatchItems, MaxBatch)}
KeyListArgs == {NotAnArray} \cup {Array(s) : s \in SeqsUpTo(KeyArgs, MaxBatch)}

\* the number of items of a batch argument that carry a RandomRange
RECURSIVE RangeCount(_)
RangeCount(items) ==
    IF items = <<>> THEN 0
    ELSE (IF Head(items).obj /\ Head(items).value.t = "range" THEN 1 ELSE 0)
         + RangeCount(Tail(items))

\* In a batch call at most one store primitive throws, one of the first four.
BatchPlans == {{}, {1}, {2}, {3}, {4}}

\* stored numbers stay within the bounds of the model
InBounds(st) ==
    \A k \in StoreKeys :
        (st[k].x = "json" /\ st[k].v.t = "num") =>
            /\ Abs(st[k].v.n) <= MaxAbs * st[k].v.d
            /\ st[k].v.d <= MaxDen

---------------------------------------------------------------------------
(* The state machine: a caller invokes one public operation at a time;     *)
(* `last` records the call that just ended, and is "idle" between calls.   *)

Idle ==
    [op |-> "idle", key |-> "", arg |-> Undef, items |-> NotAnArray,
     keys |-> NotAnArray, plan |-> {}, rng |-> <<>>, pre |-> EmptyStore,
     ex |-> FALSE, ret |-> Undef, map |-> NoMap, tr |-> <<>>, rn |-> 0,
     done |-> 0]

Init == store = EmptyStore /\ last = Idle

\* The call op(...) made in the current store ended as r: the store is as
\* the call left it and `last` records the call.
Ended(op, key, arg, items, keys, env, r) ==
    /\ InBounds(r.st)
    /\ store' = r.st
    /\ last' = [op |-> op, key |-> key, arg |-> arg, items |-> items,
                keys |-> keys, plan |-> env.plan, rng |-> env.rng,
                pre |-> store, ex |-> r.ex,
                ret |-> IF op = "get" /\ ~r.ex THEN r.ret ELSE Undef,
                map |-> r.map, tr |-> r.tr, rn |-> r.rn, done |-> r.done]

ScalarEnded(op, key, arg, env, r) ==
    Ended(op, key, arg, NotAnArray, NotAnArray, env, r)

Get ==
    /\ last.op = "idle"
    /\ \E key \in KeyArgs : \E plan \in Plans(key, 1) :
        ScalarEnded("get", key, Undef, Env(plan, <<>>),
                    get(Start(store), key, Env(plan, <<>>)))

Set ==
    /\ last.op = "idle"
    /\ \E key \in KeyArgs, value \in Amounts :
        \E plan \in Plans(key, 1), rng \in Draws(value) :
            ScalarEnded("set", key, value, Env(plan, rng),
                        set(Start(store), key, value, Env(plan, rng)))

Add ==
    /\ last.op = "idle"
    /\ \E key \in KeyArgs, amount \in Amounts :
        \E plan \in Plans(key, 2), rng \in Draws(amount) :
            ScalarEnded("add", key, amount, Env(plan, rng),
                        add(Start(store), key, amount, Env(plan, rng)))

Sub ==
    /\ last.op = "idle"
    /\ \E key \in KeyArgs, amount \in Amounts :
        \E plan \in Plans(key, 2), rng \in Draws(amount) :
            ScalarEnded("sub", key, amount, Env(plan, rng),
                        sub(Start(store), key, amount, Env(plan, rng)))

Mul ==
    /\ last.op = "idle"
    /\ \E key \in KeyArgs, amount \in Amounts :
        \E plan \in Plans(key, 2), rng \in Draws(amount) :
            ScalarEnded("mul", key, amount, Env(plan, rng),
                        mul(Start(store), key, amount, Env(plan, rng)))

Div ==
    /\ last.op = "idle"
    /\ \E key \in KeyArgs, amount \in Amounts :
        \E plan \in Plans(key, 2), rng \in Draws(amount) :
            ScalarEnded("div", key, amount, Env(plan, rng),
                        div(Start(store), key, amount, Env(plan, rng)))

Del ==
    /\ last.op = "idle"
    /\ \E key \in KeyArgs : \E plan \in Plans(key, 1) :
        ScalarEnded("del", key, Undef, Env(plan, <<>>),
                    del(Start(store), key, Env(plan, <<>>)))

Res ==
    /\ last.op = "idle"
    /\ \E plan \in SUBSET {1} :
        ScalarEnded("res", "", Undef, Env(plan, <<>>),
                    res(Start(store), Env(plan, <<>>)))

BatchSet ==
    /\ last.op = "idle"
    /\ \E arg \in BatchArgs :
        \E plan \in BatchPlans, rng \in DrawSeqs(RangeCount(arg.items)) :
            Ended("batchSet", "", Undef, arg, NotAnArray, Env(plan, rng),
                  batchSet(Start(store), arg, Env(plan, rng)))

BatchAdd ==
    /\ last.op = "idle"
    /\ \E arg \in BatchArgs :
        \E plan \in BatchPlans, rng \in DrawSeqs(RangeCount(arg.items)) :
            Ended("batchAdd", "", Undef, arg, NotAnArray, Env(plan, rng),
                  batchAdd(Start(store), arg, Env(plan, rng)))

BatchSub ==
    /\ last.op = "idle"
    /\ \E arg \in BatchArgs :
        \E plan \in BatchPlans, rng \in DrawSeqs(RangeCount(arg.items)) :
            Ended("batchSub", "", Undef, arg, NotAnArray, Env(plan, rng),
                  batchSub(Start(store), arg, Env(plan, rng)))

BatchMul ==
    /\ last.op = "idle"
    /\ \E arg \in BatchArgs :
        \E plan \in BatchPlans, rng \in DrawSeqs(RangeCount(arg.items)) :
            Ended("batchMul", "", Undef, arg, NotAnArray, Env(plan, rng),
                  batchMul(Start(store), arg, Env(plan, rng)))

BatchDiv ==
    /\ last.op = "idle"
    /\ \E arg \in BatchArgs :
        \E plan \in BatchPlans, rng \in DrawSeqs(RangeCount(arg.items)) :
            Ended("batchDiv", "", Undef, arg, NotAnArray, Env(plan, rng),
                  batchDiv(Start(store), arg, Env(plan, rng)))

BatchDel ==
    /\ last.op = "idle"
    /\ \E arg \in KeyListArgs, plan \in BatchPlans :
        Ended("batchDel", "", Undef, NotAnArray, arg, Env(plan, <<>>),
              batchDel(Start(store), arg, Env(plan, <<>>)))

BatchGet ==
    /\ last.op = "idle"
    /\ \E arg \in KeyListArgs, plan \in BatchPlans :
        Ended("batchGet", "", Undef, NotAnArray, arg, Env(plan, <<>>),
              batchGet(Start(store), arg, Env(plan, <<>>)))

\* another subsystem sharing the store writes one of its entries
ForeignWrite ==
    /\ last.op = "idle"
    /\ \E k \in StoreKeys, text \in ForeignTexts :
           store' = [store EXCEPT ![k] = text]
    /\ UNCHANGED last

\* the caller has taken the result and goes on
Continue ==
    /\ last.op # "idle"
    /\ last' = Idle
    /\ UNCHANGED store

\* the scalar operations, and batchSet
Next ==
    \/ Get \/ Set \/ Add \/ Sub \/ Mul \/ Div \/ Del \/ Res
    \/ BatchSet
    \/ ForeignWrite \/ Continue

Spec == Init /\ [][Next]_vars

\* the batch operations
NextBatch ==
    \/ BatchSet \/ BatchAdd \/ BatchSub \/ BatchMul \/ BatchDiv
    \/ BatchDel \/ BatchGet
    \/ ForeignWrite \/ Continue

SpecBatch == Init /\ [][NextBatch]_vars

---------------------------------------------------------------------------
(* What the claims speak of.                                               *)

\* what get(k) returns in store st when the store does not fault
ReadBack(st, k) == get(Start(st), k, Env({}, <<>>)).ret

\* the last call invoked store primitive prim on key k and it returned normally
PrimDone(prim, k) ==
    \E i \in DOMAIN last.tr : last.tr[i] = [prim |-> prim, key |-> k, ok |-> TRUE]

\* the last call wrote key k
WriteOk(k) == PrimDone("setItem", k)

\* no store primitive threw during the last call
NoFault == \A i \in DOMAIN last.tr : last.tr[i].ok

ArithOps == {"add", "sub", "mul", "div"}
BatchArithOps == {"batchSet", "batchAdd", "batchSub", "batchMul", "batchDiv"}

\* a whole number within lo .. hi
IntegerIn(v, lo, hi) == v.t = "num" /\ v.d = 1 /\ lo <= v.n /\ v.n <= hi

\* the text under key k is a numeric literal
NumericText(st, k) == st[k].x = "json" /\ st[k].v.t = "num"

---------------------------------------------------------------------------
(* C1 *)

\* C1: no public operation lets an exception reach the caller; a read whose
\* store primitive throws yields 0 (batchGet: the empty mapping) and a write
\* whose store primitive throws is dropped.
C1_NoExceptionReachesCaller ==
    /\ ~last.ex
    /\ (last.op = "get" /\ ~NoFault) => last.ret = IntV(0)
    /\ (last.op = "batchGet" /\ ~NoFault) =>
           \A k \in DOMAIN last.map : last.map[k] = IntV(0)
    /\ (last.op \in {"set", "del", "res"} /\ ~NoFault) => store = last.pre

---------------------------------------------------------------------------
(* C2 *)

\* C2 as claimed: after any sub(k, amount) or div(k, amount) with a numeric
\* amount, get(k) is not less than 0.
C2_NeverNegativeAfterSubDiv ==
    (last.op \in {"sub", "div"} /\ IsFinite(last.arg)) =>
        ~Negative(ReadBack(store, last.key))

\* C2, amended: after a sub(k, amount) or div(k, amount) with a numeric
\* amount whose write to the store succeeded, get(k) is not less than 0; and
\* when no store primitive threw, sub with an amount greater than the
\* balance leaves get(k) = 0.
C2_NeverNegativeAfterWrittenSubDiv ==
    /\ (last.op \in {"sub", "div"} /\ IsFinite(last.arg) /\ WriteOk(last.key)) =>
           ~Negative(ReadBack(store, last.key))
    /\ (/\ last.op = "sub" /\ IsFinite(last.arg) /\ WriteOk(last.key) /\ NoFault
        /\ Negative(Minus(ReadBack(last.pre, last.key), last.arg))) =>
           ReadBack(store, last.key) = IntV(0)

\* sub(k, 2) on a balance of 1 wrote 0
C2_Witness ==
    /\ last.op = "sub" /\ last.arg = IntV(2) /\ NoFault /\ WriteOk(last.key)
    /\ ReadBack(last.pre, last.key) = IntV(1)
    /\ ReadBack(store, last.key) = IntV(0)

---------------------------------------------------------------------------
(* C3 *)

\* C3: when the write succeeds, set(k, v) with a finite number v followed by
\* get(k) returns v, whatever k held before.
C3_SetGetRoundTrip ==
    (last.op = "set" /\ IsFinite(last.arg) /\ WriteOk(last.key)) =>
        ReadBack(store, last.key) = last.arg

\* set(k, -2) overwrote an entry that held something else
C3_Witness ==
    /\ last.op = "set" /\ last.arg = IntV(-2) /\ WriteOk(last.key)
    /\ last.pre[last.key] = JsonText(IntV(1))
    /\ ReadBack(store, last.key) = IntV(-2)

---------------------------------------------------------------------------
(* C4 *)

\* C4: get(key) always returns a number, and returns 0 whenever the key is
\* absent or the text stored under it is not a numeric literal.
C4_GetReturnsNumber ==
    (last.op = "get" /\ ~last.ex) =>
        /\ last.ret.t = "num"
        /\ ~NumericText(last.pre, last.key) => last.ret = IntV(0)

---------------------------------------------------------------------------
(* C5 *)

\* every item is an object whose value is a number or a RandomRange
WellFormed(items) ==
    \A i \in DOMAIN items :
        items[i].obj /\ items[i].key \in LedgerKeys
                     /\ items[i].value.t \in {"num", "range"}

\* the scalar operation of batch operation op called for each item in turn,
\* with the item's value as the caller gave it
RECURSIVE SeqApply(_, _, _, _)
SeqApply(op, m, items, env) ==
    IF items = <<>> THEN m
    ELSE SeqApply(op, Scalar(op, m, Head(items).key, Head(items).value, env),
                  Tail(items), env)

\* the sum of the values of the items that name key k
RECURSIVE SumFor(_, _)
SumFor(items, k) ==
    IF items = <<>> THEN IntV(0)
    ELSE Plus(IF Head(items).key = k THEN Head(items).value ELSE IntV(0),
              SumFor(Tail(items), k))

AllNumbers(items) == \A i \in DOMAIN items : items[i].obj /\ items[i].value.t = "num"

\* C5: a batch operation on well-formed items leaves the store that calling
\* the scalar operation for each item in input order leaves; with batchAdd,
\* the items naming the same key accumulate.
C5_BatchIsSequential ==
    /\ (last.op \in BatchArithOps /\ last.items.arr /\ WellFormed(last.items.items)) =>
           store = SeqApply(last.op, Start(last.pre), last.items.items,
                            Env(last.plan, last.rng)).st
    /\ (/\ last.op = "batchAdd" /\ last.items.arr /\ NoFault
        /\ AllNumbers(last.items.items)) =>
           \A k \in LedgerKeys :
               IF \E i \in DOMAIN last.items.items : last.items.items[i].key = k
               THEN ReadBack(store, k) =
                        Plus(ReadBack(last.pre, k), SumFor(last.items.items, k))
               ELSE store[k] = last.pre[k]

\* batchAdd of two items of 1 on "a", which held 0, left 2
C5_Witness ==
    /\ last.op = "batchAdd" /\ NoFault
    /\ last.items = Array(<<Item("a", IntV(1)), Item("a", IntV(1))>>)
    /\ last.pre["a"] = JsonText(IntV(0))
    /\ store["a"] = JsonText(IntV(2))

---------------------------------------------------------------------------
(* C6 *)

\* the items whose value can be resolved: a number, a RandomRange, nothing
Resolvable(items) == {i \in DOMAIN items : items[i].value.t # "null"}

\* C6: in a batch operation on an array of items, an item that fails (a
\* store fault on its read or write, or a value that cannot be resolved,
\* such as null) does not keep the other items from being applied: the
\* callback runs to its end for every item whose value can be resolved.
C6_FailedItemDoesNotStopBatch ==
    (/\ last.op \in BatchArithOps /\ last.items.arr
     /\ \A i \in DOMAIN last.items.items :
            last.items.items[i].obj /\ last.items.items[i].key \in LedgerKeys) =>
        last.done >= Cardinality(Resolvable(last.items.items))

---------------------------------------------------------------------------
(* C7 *)

\* C7 as claimed: after del(k), get(k) returns 0, k has no entry, and every
\* other entry is unchanged.
C7_DelRemovesEntry ==
    (last.op = "del" /\ last.key \in LedgerKeys) =>
        /\ ReadBack(store, last.key) = IntV(0)
        /\ store[last.key] = NoEntry
        /\ \A k \in StoreKeys \ {last.key} : store[k] = last.pre[k]

\* C7, amended: after a del(k) whose removeItem call did not throw, get(k)
\* returns 0, k has no entry (not a stored zero), and every other entry is
\* unchanged.
C7_CompletedDelRemovesEntry ==
    (last.op = "del" /\ PrimDone("removeItem", last.key)) =>
        /\ ReadBack(store, last.key) = IntV(0)
        /\ store[last.key] = NoEntry
        /\ \A k \in StoreKeys \ {last.key} : store[k] = last.pre[k]

\* del("a") removed a stored number while "b" kept its entry
C7_Witness ==
    /\ last.op = "del" /\ last.key = "a" /\ PrimDone("removeItem", "a")
    /\ last.pre["a"] = JsonText(IntV(2))
    /\ store["a"] = NoEntry
    /\ store["b"] = JsonText(IntV(1))

---------------------------------------------------------------------------
(* C8 *)

\* C8 as claimed: after res() the store holds no entry at all.
C8_ResEmptiesStore ==
    last.op = "res" => \A k \in StoreKeys : store[k] = NoEntry

\* C8, amended: after a res() whose clear call did not throw, the store
\* holds no entry at all, whether written through the Ledger or by another
\* subsystem, and get(k) returns 0 for every key.
C8_CompletedResEmptiesStore ==
    (last.op = "res" /\ PrimDone("clear", "")) =>
        \A k \in StoreKeys : store[k] = NoEntry /\ ReadBack(store, k) = IntV(0)

\* res() removed a counter and an entry of another subsystem
C8_Witness ==
    /\ last.op = "res" /\ PrimDone("clear", "")
    /\ last.pre["a"] = JsonText(IntV(2))
    /\ last.pre["b"] = RawText("{oops")
    /\ store = EmptyStore

---------------------------------------------------------------------------
(* C9 *)

IsRange(v) == v.t = "range"

\* C9 as claimed: after set(k, range), get(k) is an integer within the range.
C9_RangeResolvedOnSet ==
    (last.op = "set" /\ IsRange(last.arg) /\ last.key \in LedgerKeys) =>
        IntegerIn(ReadBack(store, last.key), last.arg.min, last.arg.max)

\* the position of the last item of the batch that wrote key k, 0 if none
LastWrite(k) ==
    LET W == {i \in DOMAIN last.tr : last.tr[i].key = k /\ last.tr[i].ok}
    IN IF W = {} THEN 0 ELSE CHOOSE i \in W : \A j \in W : j <= i

\* C9, amended: a RandomRange is never persisted itself; after a set(k,
\* range) whose write succeeded get(k) is an integer within the range and
\* one number was drawn; after batchSet, a key last written by an item
\* carrying a range holds an integer within that range, and one number was
\* drawn for each item carrying a range that was processed, no more.
C9_RangeResolvedOnce ==
    /\ \A k \in StoreKeys : ~IsRange(store[k].v)
    /\ (last.op = "set" /\ IsRange(last.arg) /\ WriteOk(last.key)) =>
           /\ IntegerIn(ReadBack(store, last.key), last.arg.min, last.arg.max)
           /\ last.rn = 1
    /\ (last.op = "batchSet" /\ last.items.arr) =>
           /\ last.rn = RangeCount(SubSeq(last.items.items, 1, Len(last.tr)))
           /\ \A k \in LedgerKeys :
                  (LastWrite(k) # 0 /\ IsRange(last.items.items[LastWrite(k)].value)) =>
                      IntegerIn(ReadBack(store, k),
                                last.items.items[LastWrite(k)].value.min,
                                last.items.items[LastWrite(k)].value.max)

\* batchSet of two items carrying the same range gave them different values
C9_Witness ==
    /\ last.op = "batchSet" /\ NoFault
    /\ last.items = Array(<<Item("a", Range(1, 2)), Item("b", Range(1, 2))>>)
    /\ store["a"] = JsonText(IntV(1))
    /\ store["b"] = JsonText(IntV(2))
    /\ last.rn = 2

---------------------------------------------------------------------------
(* C10 *)

\* the read made by the last call degraded to 0: the entry held text that
\* is not JSON, or getItem threw
ReadDegraded ==
    \/ last.pre[last.key].x = "raw"
    \/ last.tr[1] = [prim |-> "getItem", key |-> last.key, ok |-> FALSE]

\* what the arithmetic operation op stores for a prior value of 0
FromZero(op, amount) ==
    CASE op = "add" -> amount
      [] op = "sub" -> MathMax0(Minus(IntV(0), amount))
      [] op = "mul" -> Times(IntV(0), amount)
      [] op = "div" -> MathMax0(Divide(IntV(0), amount))

\* C10: when the read of add, sub, mul or div degrades to 0 and the write
\* succeeds, the entry is overwritten with the result for a prior value of
\* 0: after add, get(k) = amount.
C10_DegradedReadOverwrites ==
    (/\ last.op \in ArithOps /\ IsFinite(last.arg) /\ last.key \in LedgerKeys
     /\ ReadDegraded /\ WriteOk(last.key)) =>
        /\ store[last.key] =
               StoredText(JSONstringify(FromZero(last.op, last.arg)))
        /\ last.op = "add" => ReadBack(store, last.key) = last.arg

\* add(k, 2) replaced text that is not JSON by 2
C10_Witness ==
    /\ last.op = "add" /\ last.arg = IntV(2) /\ NoFault
    /\ last.pre[last.key] = RawText("{oops")
    /\ store[last.key] = JsonText(IntV(2))

====
